---- MODULE Spec2Model ----
(***************************************************************************)
(* Invoice numbering over a master ledger and a program store.             *)
(*                                                                         *)
(* Cells are strings, modelled as sequences of one-character strings so    *)
(* that trimming, lower-casing, substring search, digit extraction and     *)
(* number formatting are computed the way the Python code computes them.   *)
(* A sheet is the list of rows that a range read returns: the header row   *)
(* first, every row without its trailing empty cells.                      *)
(***************************************************************************)
EXTENDS Integers, Sequences, FiniteSets, TLC

VARIABLES
    master,     \* 'Master data' sheet: header row followed by the data rows
    program,    \* program store sheet: header row followed by the data rows
    config,     \* the assigner in use: implementation, matching mode, overwrite
    pc,         \* position of the assignment run in flight: "idle", "audit"
    pending,    \* audit column write the run in flight has still to issue
    run,        \* what the latest assignment run was given, read and returned
    table_name, \* the table name handed to friendly_course_name
    course,     \* what friendly_course_name returned for it, per implementation
    effort,     \* the effort workbook: its tables, in order, as title and values
    agg,        \* one call of aggregate_from_effort: where it is and its totals
    contacts,   \* the contact registry workbook: its tabs, as title and values
    links,      \* the links map built from it and what was done with it
    env,        \* the names of the configuration values that are set
    job,        \* run(selected_month): its stage, and how the last call ended
    call        \* one call of a function wrapped by retry

ledger_vars == <<master, program, config, pc, pending, run>>

classify_vars == <<table_name, course>>
agg_vars == <<effort, agg>>
links_vars == <<contacts, links>>
job_vars == <<env, job>>
retry_vars == <<call>>

vars == <<ledger_vars, classify_vars, agg_vars, links_vars, job_vars, retry_vars>>

\* the variables an assignment step leaves alone
beyond_ledger == <<classify_vars, agg_vars, links_vars, job_vars, call>>

\* the variables a classification leaves alone
beyond_classify == <<ledger_vars, agg_vars, links_vars, job_vars, call>>
beyond_agg == <<ledger_vars, classify_vars, links_vars, job_vars, call>>
beyond_links == <<program, config, pc, pending, run, classify_vars, agg_vars, job_vars, call>>
beyond_retry == <<ledger_vars, classify_vars, agg_vars, links_vars, job_vars>>
beyond_job == <<program, config, pc, pending, run, classify_vars, effort, agg, contacts, links, env, call>>

----------------------------------------------------------------------------
(* Text primitives                                                         *)

Empty == <<>>

Whitespace == {" "}

DigitChars == <<"0", "1", "2", "3", "4", "5", "6", "7", "8", "9">>

IsDigit(c) == \E d \in 1..10 : DigitChars[d] = c

DigitValue(c) == (CHOOSE d \in 1..10 : DigitChars[d] = c) - 1

LowerOf ==
    "A" :> "a" @@ "B" :> "b" @@ "C" :> "c" @@ "D" :> "d" @@ "E" :> "e" @@
    "F" :> "f" @@ "G" :> "g" @@ "H" :> "h" @@ "I" :> "i" @@ "J" :> "j" @@
    "K" :> "k" @@ "L" :> "l" @@ "M" :> "m" @@ "N" :> "n" @@ "O" :> "o" @@
    "P" :> "p" @@ "Q" :> "q" @@ "R" :> "r" @@ "S" :> "s" @@ "T" :> "t" @@
    "U" :> "u" @@ "V" :> "v" @@ "W" :> "w" @@ "X" :> "x" @@ "Y" :> "y" @@
    "Z" :> "z"

\* str.lower()
lower(s) ==
    [i \in 1..Len(s) |-> IF s[i] \in DOMAIN LowerOf THEN LowerOf[s[i]] ELSE s[i]]

RECURSIVE lstrip(_)
lstrip(s) ==
    IF s # Empty /\ Head(s) \in Whitespace THEN lstrip(Tail(s)) ELSE s

RECURSIVE rstrip(_)
rstrip(s) ==
    IF s # Empty /\ s[Len(s)] \in Whitespace
    THEN rstrip(SubSeq(s, 1, Len(s) - 1))
    ELSE s

\* str.strip()
strip(s) == rstrip(lstrip(s))

\* re.sub(r'\s+', ' ', t): every run of whitespace becomes one space
RECURSIVE collapse_ws(_)
collapse_ws(s) ==
    IF s = Empty THEN Empty
    ELSE IF Head(s) \in Whitespace
         THEN <<" ">> \o collapse_ws(lstrip(Tail(s)))
         ELSE <<Head(s)>> \o collapse_ws(Tail(s))

\* k in h, for strings
contains(k, h) ==
    \E i \in 1..(Len(h) - Len(k) + 1) : SubSeq(h, i, i + Len(k) - 1) = k

\* str(n) for a natural number
RECURSIVE str_int(_)
str_int(n) ==
    IF n < 10 THEN <<DigitChars[n + 1]>>
    ELSE str_int(n \div 10) \o <<DigitChars[(n % 10) + 1]>>

\* int(digits)
RECURSIVE int_of(_)
int_of(ds) ==
    IF ds = Empty THEN 0
    ELSE 10 * int_of(SubSeq(ds, 1, Len(ds) - 1)) + DigitValue(ds[Len(ds)])

RECURSIVE take_digits(_)
take_digits(s) ==
    IF s # Empty /\ IsDigit(Head(s)) THEN <<Head(s)>> \o take_digits(Tail(s))
    ELSE Empty

\* re.search(r'(\d+)', s): the first maximal run of digits, Empty if none
RECURSIVE first_digit_run(_)
first_digit_run(s) ==
    IF s = Empty THEN Empty
    ELSE IF IsDigit(Head(s)) THEN take_digits(s)
    ELSE first_digit_run(Tail(s))

\* ','.join(map(str, nums))
RECURSIVE join_nums(_)
join_nums(nums) ==
    IF nums = Empty THEN Empty
    ELSE IF Len(nums) = 1 THEN str_int(nums[1])
    ELSE str_int(nums[1]) \o <<",">> \o join_nums(Tail(nums))

normalize_text(s) == lower(collapse_ws(strip(s)))

----------------------------------------------------------------------------
(* Sheets: rows of cells as a range read returns them                      *)

Min(S) == CHOOSE x \in S : \A y \in S : x <= y

Max(S) == CHOOSE x \in S : \A y \in S : y <= x

\* row[idx] if idx < len(row) else "", idx counted from 0
cell(row, idx) == IF idx < Len(row) THEN row[idx + 1] ELSE Empty

\* a stored row has no trailing empty cells
RECURSIVE trim_row(_)
trim_row(row) ==
    IF row # <<>> /\ row[Len(row)] = Empty
    THEN trim_row(SubSeq(row, 1, Len(row) - 1))
    ELSE row

set_cell(row, idx, v) ==
    LET width == IF Len(row) > idx + 1 THEN Len(row) ELSE idx + 1
    IN  trim_row([c \in 1..width |->
                    IF c = idx + 1 THEN v
                    ELSE IF c <= Len(row) THEN row[c] ELSE Empty])

\* values().update over <col>2:<col>{1+n} with one value per data row
update_values(sheet, col_idx, out) ==
    [r \in 1..Len(sheet) |->
        IF r >= 2 /\ r - 1 <= Len(out)
        THEN set_cell(sheet[r], col_idx, out[r - 1])
        ELSE sheet[r]]

\* values().append below the last row of the table
append_values(sheet, rows) == sheet \o [i \in 1..Len(rows) |-> trim_row(rows[i])]

\* a dict lookup with a default: d.get(k, default)
dict_get(d, k, default) == IF k \in DOMAIN d THEN d[k] ELSE default

EmptyDict == <<>>

----------------------------------------------------------------------------
(* Column layout of the master sheet, counted from 1                        *)

COL_MONTH == 1
COL_SME == 2
COL_INV_NUMBER == 8

----------------------------------------------------------------------------
(* Inputs                                                                  *)

MaxRows == 2        \* data rows the master sheet grows to
MaxProgRows == 2    \* data rows of the program store

HdrMonth == <<"M","o","n","t","h">>
HdrCycle == <<"B","i","l","l","i","n","g"," ","C","y","c","l","e">>
HdrSme == <<"S","M","E"," ","N","a","m","e">>
HdrCourse == <<"C","o","u","r","s","e">>
HdrTracker == <<"T","r","a","c","k","e","r">>
HdrAmount == <<"A","m","o","u","n","t">>
HdrPeriod == <<"P","e","r","i","o","d">>
HdrLastDate == <<"I","n","v","o","i","c","e"," ","L","a","s","t"," ","D","a","t","e">>
HdrNumber == <<"I","n","v","o","i","c","e"," ","N","u","m","b","e","r">>
HdrDated == <<"I","n","v","o","i","c","e"," ","D","a","t","e","d">>
HdrEmail == <<"E","m","a","i","l">>
HdrAudit == <<"I","n","v","o","i","c","e"," ","A","u","d","i","t">>

\* header rows of the master sheet: all columns named; no audit column; the
\* period column under a name without "month"
MasterHeaders ==
    { <<HdrMonth, HdrSme, HdrCourse, HdrTracker, HdrAmount, HdrPeriod,
        HdrLastDate, HdrNumber, HdrDated, HdrEmail, HdrAudit>>,
      <<HdrMonth, HdrSme, HdrCourse, HdrTracker, HdrAmount, HdrPeriod,
        HdrLastDate, HdrNumber, HdrDated, HdrEmail>>,
      <<HdrCycle, HdrSme, HdrCourse, HdrTracker, HdrAmount, HdrPeriod,
        HdrLastDate, HdrNumber, HdrDated, HdrEmail, HdrAudit>> }

ProgHeader ==
    << <<"D","a","t","e">>,
       <<"I","n","v","o","i","c","e"," ","N","u","m","b","e","r">>,
       <<"S","M","E"," ","N","a","m","e"," ","/"," ","C","o","m","p","a","n","y"," ","N","a","m","e">> >>

JaneDoe == <<"J","a","n","e"," ","D","o","e">>
JaneAlt == <<" ","j","a","n","e"," "," ","d","o","e">>
Bob == <<"B","o","b">>

Sep == <<"S","e","p"," ","2","0","2","5">>
Oct == <<"O","c","t"," ","2","0","2","5">>

Names == {JaneDoe, JaneAlt}
Months == {Sep, Oct}
Filters == {Empty, Sep}

ADate == <<"0","6"," ","1","1">>

\* program rows: date, invoice number, name
ProgRowChoices ==
    { <<ADate, <<"I","N","V","-","0","7","/","2","5">>, JaneDoe>>,
      <<ADate, <<"x","3">>, JaneAlt>>,
      <<ADate, Empty, Bob>> }

SeqsUpTo(S, n) == UNION {[1..k -> S] : k \in 0..n}

ProgramStores == {<<ProgHeader>> \o rows : rows \in SeqsUpTo(ProgRowChoices, MaxProgRows)}

\* the row run() builds for one (sme, course) total
master_row(selected_month, sme) ==
    <<selected_month, sme,
      <<"D","S">>, Empty, <<"1","0","0",".","0">>, selected_month, ADate,
      Empty, ADate, Empty>>

----------------------------------------------------------------------------
(* invoice_utils.assign_invoice_numbers                                    *)

\* first candidate, in the order given, that some lower-cased header
\* contains; the first such header's index from 0, -1 when none
index_of(hlist, candidates) ==
    LET hits(c) == {i \in 1..Len(hlist) : contains(candidates[c], lower(hlist[i]))}
        found == {c \in 1..Len(candidates) : hits(c) # {}}
    IN  IF found = {} THEN -1 ELSE Min(hits(Min(found))) - 1

MonthKeys == << <<"m","o","n","t","h">> >>

SmeKeys ==
    << <<"s","m","e">>,
       <<"i","n","s","t","r","u","c","t","o","r">>,
       <<"n","a","m","e">> >>

InvoiceKeys ==
    << <<"i","n","v","o","i","c","e"," ","n","u","m","b","e","r">>,
       <<"i","n","v","o","i","c","e">> >>

AuditKeys == << <<"i","n","v","o","i","c","e"," ","a","u","d","i","t">> >>

ProgSmeKeys ==
    << <<"s","m","e"," ","n","a","m","e">>,
       <<"s","m","e"," ","n","a","m","e"," ","/"," ","c","o","m","p","a","n","y"," ","n","a","m","e">>,
       <<"c","o","m","p","a","n","y"," ","n","a","m","e">> >>

utils_col_month(header) == index_of(header, MonthKeys)

utils_col_sme(header) ==
    LET c == index_of(header, SmeKeys) IN IF c = -1 THEN 1 ELSE c

utils_col_invoice(header) ==
    LET c == index_of(header, InvoiceKeys) IN IF c = -1 THEN 7 ELSE c

utils_col_audit(header) == index_of(header, AuditKeys)

utils_prog_sme_idx(prog_header) ==
    LET c == index_of(prog_header, ProgSmeKeys) IN IF c = -1 THEN 2 ELSE c

utils_prog_inv_idx(prog_header) ==
    LET c == index_of(prog_header, InvoiceKeys) IN IF c = -1 THEN 1 ELSE c

utils_columns(header) ==
    [month |-> utils_col_month(header), sme |-> utils_col_sme(header),
     invoice |-> utils_col_invoice(header), audit |-> utils_col_audit(header)]

\* the columns of every header row of the model, found once
UtilsColumns == [h \in MasterHeaders |-> utils_columns(h)]

\* normalize_text of every name of the model, computed once
Normalized == [n \in Names \cup {Bob, Empty} |-> normalize_text(n)]

\* the grouping key of a name
utils_key(name, exact_match) == IF exact_match THEN name ELSE Normalized[name]

C4_mut_invoice_num(inv_raw) == int_of(SelectSeq(inv_raw, IsDigit))

\* the number a program invoice cell stands for
invoice_num(inv_raw) ==
    LET m == first_digit_run(inv_raw)
    IN  IF m # Empty THEN int_of(m) ELSE 0

\* the scan of the program rows: prev_max and prog_refs after rows i..n
RECURSIVE utils_scan_program(_, _, _, _, _, _)
utils_scan_program(prog_rows, i, sme_idx, inv_idx, exact_match, acc) ==
    IF i > Len(prog_rows) THEN acc
    ELSE
        LET row == prog_rows[i]
            name == cell(row, sme_idx)
            key == utils_key(name, exact_match)
            num == invoice_num(cell(row, inv_idx))
            pm == IF key \notin DOMAIN acc.prev_max \/ num > acc.prev_max[key]
                  THEN [k \in DOMAIN acc.prev_max \cup {key} |->
                            IF k = key THEN num ELSE acc.prev_max[k]]
                  ELSE acc.prev_max
            refs == [k \in DOMAIN acc.prog_refs \cup {key} |->
                        IF k = key
                        THEN Append(dict_get(acc.prog_refs, key, <<>>), i + 1)
                        ELSE acc.prog_refs[k]]
        IN  IF name = Empty
            THEN utils_scan_program(prog_rows, i + 1, sme_idx, inv_idx, exact_match, acc)
            ELSE utils_scan_program(prog_rows, i + 1, sme_idx, inv_idx, exact_match,
                                    [prev_max |-> pm, prog_refs |-> refs])

utils_scan(prog_vals, exact_match) ==
    utils_scan_program(Tail(prog_vals), 1, utils_prog_sme_idx(prog_vals[1]),
        utils_prog_inv_idx(prog_vals[1]), exact_match,
        [prev_max |-> EmptyDict, prog_refs |-> EmptyDict])

\* the scan of every program store of the model, made once
UtilsScan == [s \in ProgramStores |-> [e \in BOOLEAN |-> utils_scan(s, e)]]

\* whether the period filter lets the row through
utils_month_ok(row, col_month, month_filter) ==
    IF month_filter # Empty /\ col_month # -1
    THEN strip(cell(row, col_month)) = strip(month_filter)
    ELSE TRUE

\* whether the key has program history
utils_has_history(key, prev_max) == key \in DOMAIN prev_max

\* the grouping of the master rows: groups after rows i..n, each group the
\* sheet row numbers of its rows in row order
RECURSIVE utils_group_rows(_, _, _, _, _, _, _, _)
utils_group_rows(rows, i, col_month, col_sme, month_filter, exact_match, prev_max, groups) ==
    IF i > Len(rows) THEN groups
    ELSE
        LET row == rows[i]
            name == cell(row, col_sme)
            key == utils_key(name, exact_match)
            added == [k \in DOMAIN groups \cup {key} |->
                        IF k = key
                        THEN Append(dict_get(groups, key, <<>>), i + 1)
                        ELSE groups[k]]
        IN  IF utils_month_ok(row, col_month, month_filter)
               /\ name # Empty
               /\ utils_has_history(key, prev_max)
            THEN utils_group_rows(rows, i + 1, col_month, col_sme, month_filter,
                                  exact_match, prev_max, added)
            ELSE utils_group_rows(rows, i + 1, col_month, col_sme, month_filter,
                                  exact_match, prev_max, groups)

C2_mut_first_num(prev) == prev

\* the first number of a group
utils_first_num(prev) == prev + 1

C3_mut_skip_existing(existing, force_overwrite) == FALSE

\* a row that already carries a number is passed over
utils_skip_existing(existing, force_overwrite) ==
    existing # Empty /\ ~force_overwrite

invoice_text(n) == <<"I","n","v","o","i","c","e"," ","#"," ">> \o str_int(n)

audit_text(refs, prev, n) ==
    <<"M","a","t","c","h","e","d","P","r","o","g","r","a","m","R","o","w","s",":">>
    \o (IF join_nums(refs) # Empty THEN join_nums(refs) ELSE <<"n","o","n","e">>)
    \o <<";"," ","P","r","e","v","I","n","v",":">> \o str_int(prev)
    \o <<";"," ","A","s","s","i","g","n","e","d",":">> \o str_int(n)

\* the rows of one group, from position j on, with next_num the next number
RECURSIVE utils_assign_group(_, _, _, _, _, _, _, _)
utils_assign_group(row_nums, j, next_num, refs, prev, col_audit, force_overwrite, out) ==
    IF j > Len(row_nums) THEN out
    ELSE
        LET idx == row_nums[j] - 2
            existing == out.invoice_out[idx + 1]
            done == [invoice_out |-> [out.invoice_out EXCEPT ![idx + 1] = invoice_text(next_num)],
                     audit_out |-> IF col_audit >= 0
                                   THEN [out.audit_out EXCEPT ![idx + 1] =
                                            audit_text(refs, prev, next_num)]
                                   ELSE out.audit_out,
                     total_assigned |-> out.total_assigned + 1,
                     assigned_rows |-> out.assigned_rows \cup {idx + 1}]
        IN  IF utils_skip_existing(existing, force_overwrite)
            THEN utils_assign_group(row_nums, j + 1, next_num, refs, prev,
                                    col_audit, force_overwrite, out)
            ELSE utils_assign_group(row_nums, j + 1, next_num + 1, refs, prev,
                                    col_audit, force_overwrite, done)

\* every group in turn
RECURSIVE utils_assign_groups(_, _, _, _, _, _, _)
utils_assign_groups(keys, groups, prev_max, prog_refs, col_audit, force_overwrite, out) ==
    IF keys = {} THEN out
    ELSE
        LET key == CHOOSE k \in keys : \A o \in keys : groups[k][1] <= groups[o][1]
            prev == dict_get(prev_max, key, 0)
        IN  utils_assign_groups(keys \ {key}, groups, prev_max, prog_refs,
                col_audit, force_overwrite,
                utils_assign_group(groups[key], 1, utils_first_num(prev),
                    dict_get(prog_refs, key, <<>>), prev, col_audit,
                    force_overwrite, out))

\* rows[i][idx] if idx < len(rows[i]) else "", where Python counts a
\* negative idx from the end of the row
py_cell(row, idx) ==
    IF idx < Len(row)
    THEN (IF idx >= 0 THEN row[idx + 1] ELSE row[Len(row) + idx + 1])
    ELSE Empty

NoOutcome ==
    [invoice_out |-> <<>>, audit_out |-> <<>>, total_assigned |-> 0,
     assigned_rows |-> {}]

\* a return before the write-back
utils_no_op(status) ==
    [writes |-> FALSE, result |-> [status |-> status],
     col_invoice |-> -1, col_audit |-> -1, out |-> NoOutcome]

\* invoice_out and audit_out as read from the rows
utils_start(rows, cols) ==
    [invoice_out |-> [i \in 1..Len(rows) |-> py_cell(rows[i], cols.invoice)],
     audit_out |-> [i \in 1..Len(rows) |-> py_cell(rows[i], cols.audit)],
     total_assigned |-> 0,
     assigned_rows |-> {}]

\* the write-back of the two columns and the value returned
utils_write_back(cols, out) ==
    [writes |-> TRUE,
     result |-> [status |-> "ok", assigned |-> out.total_assigned],
     col_invoice |-> cols.invoice, col_audit |-> cols.audit, out |-> out]

\* from the groups on
utils_assign(rows, cols, scan, force_overwrite, groups) ==
    IF DOMAIN groups = {}
    THEN utils_no_op("no_matches")
    ELSE utils_write_back(cols,
            utils_assign_groups(DOMAIN groups, groups, scan.prev_max,
                scan.prog_refs, cols.audit, force_overwrite,
                utils_start(rows, cols)))

\* from the program scan on
utils_group_and_assign(rows, cols, scan, month_filter, exact_match, force_overwrite) ==
    utils_assign(rows, cols, scan, force_overwrite,
        utils_group_rows(rows, 1, cols.month, cols.sme, month_filter,
            exact_match, scan.prev_max, EmptyDict))

\* assign_invoice_numbers up to its write-back: what it returns, whether it
\* writes, and the two columns it writes
assign_invoice_numbers(master_vals, prog_vals, month_filter, exact_match, force_overwrite) ==
    IF Len(master_vals) < 2 THEN utils_no_op("empty")
    ELSE IF Len(prog_vals) < 2 THEN utils_no_op("no_program_rows")
    ELSE utils_group_and_assign(Tail(master_vals), UtilsColumns[master_vals[1]],
            UtilsScan[prog_vals][exact_match], month_filter, exact_match,
            force_overwrite)

----------------------------------------------------------------------------
(* run_create_invoices.assign_invoice_numbers_exact_match                  *)

\* headers.index(name) if name in headers else fallback
header_index(headers, name, fallback) ==
    IF \E i \in 1..Len(headers) : headers[i] = name
    THEN Min({i \in 1..Len(headers) : headers[i] = name}) - 1
    ELSE fallback

exact_col_month(headers) ==
    header_index(headers, <<"M","o","n","t","h">>, COL_MONTH - 1)

exact_col_sme(headers) ==
    header_index(headers, <<"S","M","E"," ","N","a","m","e">>, COL_SME - 1)

exact_col_invoice(headers) ==
    header_index(headers, <<"i","n","v","o","i","c","e"," ","n","u","m","b","e","r">>,
                 COL_INV_NUMBER - 1)

\* the last header a test holds of decides, -1 when none
last_index(S) == IF S = {} THEN -1 ELSE Max(S) - 1

exact_prog_inv_idx(prog_header) ==
    LET c == last_index({i \in 1..Len(prog_header) :
                contains(lower(<<"I","n","v","o","i","c","e"," ","N","u","m","b","e","r">>),
                         lower(prog_header[i]))})
    IN  IF c = -1 THEN 1 ELSE c

exact_prog_sme_idx(prog_header) ==
    LET c == last_index({i \in 1..Len(prog_header) :
                \/ contains(<<"S","M","E"," ","N","a","m","e">>, prog_header[i])
                \/ contains(lower(<<"S","M","E"," ","N","a","m","e"," ","/"," ",
                                    "C","o","m","p","a","n","y"," ","N","a","m","e">>),
                            lower(prog_header[i]))})
    IN  IF c = -1 THEN 2 ELSE c

\* prevMaxInvoice and matchedProgramRows after program rows i..n
RECURSIVE exact_scan_program(_, _, _, _, _)
exact_scan_program(prog_rows, i, sme_idx, inv_idx, acc) ==
    IF i > Len(prog_rows) THEN acc
    ELSE
        LET r == prog_rows[i]
            rawName == cell(r, sme_idx)
            key == rawName
            rawInv == cell(r, inv_idx)
            num == IF rawInv # Empty THEN invoice_num(rawInv) ELSE 0
            old == dict_get(acc.prev_max, key, 0)
            pm == [k \in DOMAIN acc.prev_max \cup {key} |->
                    IF k = key THEN (IF num > old THEN num ELSE old)
                    ELSE acc.prev_max[k]]
            refs == [k \in DOMAIN acc.prog_refs \cup {key} |->
                        IF k = key
                        THEN Append(dict_get(acc.prog_refs, key, <<>>), i + 1)
                        ELSE acc.prog_refs[k]]
        IN  IF strip(rawName) = Empty
            THEN exact_scan_program(prog_rows, i + 1, sme_idx, inv_idx, acc)
            ELSE exact_scan_program(prog_rows, i + 1, sme_idx, inv_idx,
                                    [prev_max |-> pm, prog_refs |-> refs])

\* the header the audit column is found by, -1 when none
exact_audit_idx(headers) ==
    LET S == {i \in 1..Len(headers) :
                contains(lower(<<"I","n","v","o","i","c","e"," ","A","u","d","i","t">>),
                         lower(headers[i]))}
    IN  IF S = {} THEN -1 ELSE Min(S) - 1

exact_scan(prog_vals) ==
    exact_scan_program(Tail(prog_vals), 1, exact_prog_sme_idx(prog_vals[1]),
        exact_prog_inv_idx(prog_vals[1]),
        [prev_max |-> EmptyDict, prog_refs |-> EmptyDict])

\* the scan of every program store of the model, made once
ExactScan == [s \in ProgramStores |-> exact_scan(s)]

exact_columns(headers) ==
    [month |-> exact_col_month(headers), sme |-> exact_col_sme(headers),
     invoice |-> exact_col_invoice(headers), audit |-> exact_audit_idx(headers)]

\* the columns of every header row of the model, found once
ExactColumns == [h \in MasterHeaders |-> exact_columns(h)]

\* whether the period filter lets the row through
exact_month_ok(row, col_month_index, month_filter) ==
    IF month_filter # Empty /\ col_month_index < Len(row)
    THEN strip(row[col_month_index + 1]) = strip(month_filter)
    ELSE TRUE

C9_mut_has_history(key, prevMaxInvoice) == TRUE

\* whether the name has program history
exact_has_history(key, prevMaxInvoice) == key \in DOMAIN prevMaxInvoice

RECURSIVE exact_group_rows(_, _, _, _, _, _, _)
exact_group_rows(rows, i, col_month_index, col_sme_index, month_filter, prevMaxInvoice, groups) ==
    IF i > Len(rows) THEN groups
    ELSE
        LET row == rows[i]
            rawSme == cell(row, col_sme_index)
            key == rawSme
            added == [k \in DOMAIN groups \cup {key} |->
                        IF k = key
                        THEN Append(dict_get(groups, key, <<>>), i + 1)
                        ELSE groups[k]]
        IN  IF exact_month_ok(row, col_month_index, month_filter)
               /\ rawSme # Empty
               /\ exact_has_history(key, prevMaxInvoice)
            THEN exact_group_rows(rows, i + 1, col_month_index, col_sme_index,
                                  month_filter, prevMaxInvoice, added)
            ELSE exact_group_rows(rows, i + 1, col_month_index, col_sme_index,
                                  month_filter, prevMaxInvoice, groups)

\* the first number of a group
exact_first_num(prev) == prev + 1

\* a row that already carries a number is passed over
exact_skip_existing(existingInv, force_overwrite) ==
    existingInv # Empty /\ ~force_overwrite

RECURSIVE exact_assign_group(_, _, _, _, _, _, _)
exact_assign_group(sheet_rows, j, nextNum, prog_refs, prev, force_overwrite, out) ==
    IF j > Len(sheet_rows) THEN out
    ELSE
        LET zero_idx == sheet_rows[j] - 2
            existingInv == out.invoice_out[zero_idx + 1]
            done == [invoice_out |-> [out.invoice_out EXCEPT ![zero_idx + 1] =
                                        invoice_text(nextNum)],
                     audit_out |-> [out.audit_out EXCEPT ![zero_idx + 1] =
                                        audit_text(prog_refs, prev, nextNum)],
                     total_assigned |-> out.total_assigned + 1,
                     assigned_rows |-> out.assigned_rows \cup {zero_idx + 1}]
        IN  IF exact_skip_existing(existingInv, force_overwrite)
            THEN exact_assign_group(sheet_rows, j + 1, nextNum, prog_refs, prev,
                                    force_overwrite, out)
            ELSE exact_assign_group(sheet_rows, j + 1, nextNum + 1, prog_refs, prev,
                                    force_overwrite, done)

RECURSIVE exact_assign_groups(_, _, _, _, _, _)
exact_assign_groups(keys, groups, prevMaxInvoice, matchedProgramRows, force_overwrite, out) ==
    IF keys = {} THEN out
    ELSE
        LET key == CHOOSE k \in keys : \A o \in keys : groups[k][1] <= groups[o][1]
            prev == dict_get(prevMaxInvoice, key, 0)
        IN  exact_assign_groups(keys \ {key}, groups, prevMaxInvoice,
                matchedProgramRows, force_overwrite,
                exact_assign_group(groups[key], 1, exact_first_num(prev),
                    dict_get(matchedProgramRows, key, <<>>), prev,
                    force_overwrite, out))

\* a return of {"assigned": 0} before the write-back
exact_no_op ==
    [writes |-> FALSE, result |-> [assigned |-> 0],
     col_invoice |-> -1, col_audit |-> -1, out |-> NoOutcome]

\* invoiceOut as read from the rows, audit_out blank
exact_start(rows, cols) ==
    [invoice_out |-> [i \in 1..Len(rows) |-> cell(rows[i], cols.invoice)],
     audit_out |-> [i \in 1..Len(rows) |-> Empty],
     total_assigned |-> 0,
     assigned_rows |-> {}]

\* the write-back of column H and of the audit column, and the value returned
exact_write_back(cols, out) ==
    [writes |-> TRUE, result |-> [assigned |-> out.total_assigned],
     col_invoice |-> COL_INV_NUMBER - 1,
     col_audit |-> cols.audit, out |-> out]

\* from the groups on
exact_assign(rows, cols, scan, force_overwrite, groups) ==
    IF DOMAIN groups = {}
    THEN exact_no_op
    ELSE exact_write_back(cols,
            exact_assign_groups(DOMAIN groups, groups, scan.prev_max,
                scan.prog_refs, force_overwrite, exact_start(rows, cols)))

\* from the program scan on
exact_group_and_assign(rows, cols, scan, force_overwrite, month_filter) ==
    exact_assign(rows, cols, scan, force_overwrite,
        exact_group_rows(rows, 1, cols.month, cols.sme, month_filter,
            scan.prev_max, EmptyDict))

\* assign_invoice_numbers_exact_match up to its write-back
assign_invoice_numbers_exact_match(vals, prog_vals, force_overwrite, month_filter) ==
    IF Len(vals) < 2 \/ Len(prog_vals) < 2
    THEN exact_no_op
    ELSE exact_group_and_assign(Tail(vals), ExactColumns[vals[1]],
            ExactScan[prog_vals], force_overwrite, month_filter)

----------------------------------------------------------------------------
(* State machine                                                           *)

\* the assigner a deployment uses: which implementation, and for
\* assign_invoice_numbers its exact_match and force_overwrite arguments
Configs ==
    [variant : {"utils"}, exact_match : BOOLEAN, force_overwrite : BOOLEAN]
    \cup [variant : {"exact"}, exact_match : {TRUE}, force_overwrite : BOOLEAN]

NoRun ==
    [month_filter |-> Empty, state |-> "none", repeat |-> FALSE, pre |-> <<>>,
     result |-> <<>>, wrote |-> FALSE, assigned_rows |-> {}, outcome |-> <<>>]

NoPending == [col |-> -1, out |-> <<>>]

\* no classification under way
ClassifyIdle == table_name = <<>> /\ course = [by |-> "none", name |-> <<>>]

\* no aggregation called, no effort workbook looked at
NoAgg ==
    [by |-> "none", selected_month |-> <<>>, next |-> 0, status |-> "idle",
     totals |-> <<>>, counted |-> {}, failed |-> {}]

AggIdle == effort = <<>> /\ agg = NoAgg

\* no links map built
NoLinks == [by |-> "none", status |-> "idle", links_map |-> <<>>, pre |-> <<>>]

LinksIdle == contacts = <<>> /\ links = NoLinks

\* run() not called
NoJob ==
    [stage |-> "idle", selected_month |-> <<>>, rows |-> <<>>, pre |-> <<>>,
     status |-> "none", aborted_at |-> "none", faults |-> {}, done |-> {},
     wrote |-> FALSE, runs |-> 0]

JobIdle == env = {} /\ job = NoJob

\* no wrapped function called
NoCall ==
    [max_attempts |-> 0, attempt |-> 0, state |-> "idle", log |-> <<>>,
     slept |-> <<>>, outcome |-> "none"]

RetryIdle == call = NoCall

Init ==
    /\ master \in {<<h>> : h \in MasterHeaders}
    /\ program \in ProgramStores
    /\ config \in Configs
    /\ pc = "idle"
    /\ pending = NoPending
    /\ run = NoRun
    /\ ClassifyIdle
    /\ AggIdle
    /\ LinksIdle
    /\ JobIdle
    /\ RetryIdle

\* append_master_rows with a row run() built
AppendRows(selected_month, sme) ==
    /\ pc = "idle"
    /\ Len(master) - 1 < MaxRows
    /\ master' = append_values(master, <<master_row(selected_month, sme)>>)
    /\ run' = NoRun
    /\ UNCHANGED <<program, config, pc, pending, beyond_ledger>>

\* the configured implementation up to its write-back
Plan(month_filter) ==
    IF config.variant = "utils"
    THEN assign_invoice_numbers(master, program, month_filter,
                                config.exact_match, config.force_overwrite)
    ELSE assign_invoice_numbers_exact_match(master, program,
                                            config.force_overwrite, month_filter)

\* the audit column written over a ledger, when there is one
with_audit(sheet, plan) ==
    IF plan.col_audit >= 0
    THEN update_values(sheet, plan.col_audit, plan.out.audit_out)
    ELSE sheet

\* the ledger once every write of the plan has landed
Outcome(plan) ==
    IF ~plan.writes THEN master
    ELSE with_audit(update_values(master, plan.col_invoice, plan.out.invoice_out),
                    plan)

\* the write of the invoice column of a plan, and the record of the run
Commit(month_filter, plan, outcome) ==
    LET two == plan.writes /\ plan.col_audit >= 0
    IN  /\ master' = IF plan.writes
                     THEN update_values(master, plan.col_invoice, plan.out.invoice_out)
                     ELSE master
        /\ pc' = IF two THEN "audit" ELSE "idle"
        /\ pending' = IF two
                      THEN [col |-> plan.col_audit, out |-> plan.out.audit_out]
                      ELSE NoPending
        /\ run' = [month_filter |-> month_filter,
                   state |-> IF two THEN "running" ELSE "done",
                   repeat |-> (run.state = "done"
                                 /\ run.month_filter = month_filter),
                   pre |-> master,
                   result |-> plan.result,
                   wrote |-> plan.writes,
                   assigned_rows |-> plan.out.assigned_rows,
                   outcome |-> outcome]

\* a plan together with the ledger it leads to
Finish(month_filter, plan) == Commit(month_filter, plan, Outcome(plan))

\* an assignment run up to and including its write of the invoice column
Assign(month_filter) ==
    /\ pc = "idle"
    /\ Finish(month_filter, Plan(month_filter))
    /\ UNCHANGED <<program, config, beyond_ledger>>

\* a read, or the write of the invoice column, raises: nothing is written
AssignFails ==
    /\ pc = "idle"
    /\ Len(master) >= 2
    /\ run' = [month_filter |-> Empty, state |-> "failed", repeat |-> FALSE,
               pre |-> master, result |-> <<>>, wrote |-> FALSE,
               assigned_rows |-> {}, outcome |-> master]
    /\ UNCHANGED <<master, program, config, pc, pending, beyond_ledger>>

\* the write of the audit column, which ends the run
WriteAudit ==
    /\ pc = "audit"
    /\ master' = update_values(master, pending.col, pending.out)
    /\ pc' = "idle"
    /\ pending' = NoPending
    /\ run' = [run EXCEPT !.state = "done"]
    /\ UNCHANGED <<program, config, beyond_ledger>>

\* the write of the audit column raises: the run ends there
AuditWriteFails ==
    /\ pc = "audit"
    /\ pc' = "idle"
    /\ pending' = NoPending
    /\ run' = [run EXCEPT !.state = "crashed"]
    /\ UNCHANGED <<master, program, config, beyond_ledger>>

Next ==
    \/ \E m \in Months, n \in Names : AppendRows(m, n)
    \/ \E f \in Filters : Assign(f)
    \/ AssignFails
    \/ WriteAudit
    \/ AuditWriteFails

Spec == Init /\ [][Next]_vars

TypeOK ==
    /\ pc \in {"idle", "audit"}
    /\ Len(master) >= 1
    /\ Len(master) - 1 <= MaxRows

----------------------------------------------------------------------------
(* Reading the ledger and the program store in the claims                  *)

DataRows(sheet) == 1..(Len(sheet) - 1)

MonthCell(sheet, i) == cell(sheet[i + 1], COL_MONTH - 1)
NameCell(sheet, i) == cell(sheet[i + 1], COL_SME - 1)
InvoiceCell(sheet, i) == cell(sheet[i + 1], COL_INV_NUMBER - 1)
AuditCell(sheet, i) == cell(sheet[i + 1], 10)

\* the instructor key under the configured matching mode
KeyOf(name) == IF config.exact_match THEN name ELSE Normalized[name]

\* the program rows of a key: the name is the third cell, the number the second
ProgramRowsOf(key) ==
    {r \in 1..(Len(program) - 1) :
        cell(program[r + 1], 2) # Empty /\ KeyOf(cell(program[r + 1], 2)) = key}

HasHistory(key) == ProgramRowsOf(key) # {}

\* the number the first run of digits of a cell spells, 0 without digits
FirstNumberIn(c) ==
    LET at == {a \in 1..Len(c) : IsDigit(c[a])}
        a == Min(at)
        b == Max({e \in a..Len(c) : \A x \in a..e : IsDigit(c[x])})
    IN  IF at = {} THEN 0 ELSE int_of(SubSeq(c, a, b))

\* the largest number the program store records for a key
PrevMaxOf(key) ==
    Max({FirstNumberIn(cell(program[r + 1], 1)) : r \in ProgramRowsOf(key)})

InvoicePrefix == <<"I","n","v","o","i","c","e"," ","#"," ">>

\* the number of a cell of the form "Invoice # n"
AssignedNumber(c) == int_of(SubSeq(c, Len(InvoicePrefix) + 1, Len(c)))

RunActed == run.state \in {"running", "done", "crashed"}

\* the rows of the ledger before the run that pass the run's period filter
PassesFilter(i) ==
    run.month_filter = Empty \/ strip(MonthCell(run.pre, i)) = strip(run.month_filter)

----------------------------------------------------------------------------
(* C1: across runs with force_overwrite = false against one ledger and one  *)
(* program store, no two ledger rows of one instructor key hold the same   *)
(* invoice number.                                                         *)
C1_NoDuplicateNumbers ==
    ~config.force_overwrite =>
        \A i, j \in DataRows(master) :
            (i < j /\ KeyOf(NameCell(master, i)) = KeyOf(NameCell(master, j))
                   /\ InvoiceCell(master, i) # Empty)
            => InvoiceCell(master, i) # InvoiceCell(master, j)

(* C2: within one run the numbers assigned to a key's rows increase        *)
(* strictly in row order and all exceed the key's maximum in the program   *)
(* store.                                                                  *)
C2_Monotonic ==
    RunActed =>
        /\ \A i \in run.assigned_rows :
              /\ HasHistory(KeyOf(NameCell(master, i)))
              /\ SubSeq(InvoiceCell(master, i), 1, Len(InvoicePrefix)) = InvoicePrefix
              /\ AssignedNumber(InvoiceCell(master, i))
                    > PrevMaxOf(KeyOf(NameCell(master, i)))
        /\ \A i, j \in run.assigned_rows :
              (i < j /\ KeyOf(NameCell(master, i)) = KeyOf(NameCell(master, j)))
              => AssignedNumber(InvoiceCell(master, i))
                    < AssignedNumber(InvoiceCell(master, j))

\* a run assigned two rows of one key whose history holds several numbers
C2_Witness ==
    /\ run.state = "done"
    /\ \E i, j \in run.assigned_rows :
          /\ i < j
          /\ KeyOf(NameCell(master, i)) = KeyOf(NameCell(master, j))
          /\ Cardinality(ProgramRowsOf(KeyOf(NameCell(master, i)))) >= 2
          /\ PrevMaxOf(KeyOf(NameCell(master, i))) > 0

(* C3: with force_overwrite = false a row whose invoice-number cell is     *)
(* non-blank before a run holds the same value after it.                   *)
C3_ExistingKept ==
    (RunActed /\ ~config.force_overwrite) =>
        \A i \in DataRows(run.pre) :
            InvoiceCell(run.pre, i) # Empty
            => InvoiceCell(master, i) = InvoiceCell(run.pre, i)

\* a run that assigned a row passed over a numbered row of the same key
C3_Witness ==
    /\ run.state = "done"
    /\ ~config.force_overwrite
    /\ \E i \in DataRows(run.pre), j \in run.assigned_rows :
          /\ InvoiceCell(run.pre, i) # Empty
          /\ PassesFilter(i)
          /\ KeyOf(NameCell(master, i)) = KeyOf(NameCell(master, j))

\* how many of a key's rows up to row i the run assigned
RankOf(i) ==
    Cardinality({j \in run.assigned_rows :
        j <= i /\ KeyOf(NameCell(master, j)) = KeyOf(NameCell(master, i))})

(* C4: the k-th row a run assigns in a key's group receives                *)
(* "Invoice # (prevMax + k)", prevMax the largest first run of digits of   *)
(* the key's program rows; rows passed over take no k, and under           *)
(* force_overwrite = true every row of the group is assigned.              *)
C4_Numbering ==
    RunActed =>
        /\ \A i \in run.assigned_rows :
              InvoiceCell(master, i) =
                  invoice_text(PrevMaxOf(KeyOf(NameCell(master, i))) + RankOf(i))
        /\ config.force_overwrite =>
              \A i \in DataRows(run.pre) :
                  (PassesFilter(i) /\ NameCell(run.pre, i) # Empty
                     /\ HasHistory(KeyOf(NameCell(run.pre, i))))
                  => i \in run.assigned_rows

\* a run passed over a numbered row of a group and gave the next row of the
\* group the group's first number
C4_Witness ==
    /\ run.state = "done"
    /\ ~config.force_overwrite
    /\ \E j \in DataRows(run.pre), i \in run.assigned_rows :
          /\ j < i
          /\ KeyOf(NameCell(master, i)) = KeyOf(NameCell(master, j))
          /\ InvoiceCell(run.pre, j) # Empty
          /\ PassesFilter(j)
          /\ RankOf(i) = 1
          /\ PrevMaxOf(KeyOf(NameCell(master, i))) = 7

\* every invoice-number and audit cell of the rows in S is as before the run
CellsKept(S) ==
    \A i \in S :
        /\ InvoiceCell(master, i) = InvoiceCell(run.pre, i)
        /\ AuditCell(master, i) = AuditCell(run.pre, i)

(* C5: a second run straight after a run, with force_overwrite = false and *)
(* the same period filter, program store and ledger rows, assigns nothing  *)
(* and leaves every invoice-number and audit cell as the first run left it.*)
C5_Idempotent ==
    (run.state = "done" /\ run.repeat /\ ~config.force_overwrite) =>
        /\ run.assigned_rows = {}
        /\ dict_get(run.result, "assigned", 0) = 0
        /\ CellsKept(DataRows(run.pre))

(* C6: a run changes the invoice-number and audit cells of no row it did   *)
(* not assign.                                                             *)
C6_OnlyAssignedRowsChange ==
    run.state = "done" => CellsKept(DataRows(run.pre) \ run.assigned_rows)

(* C7: when a run crashes the ledger is as before the run, or holds every  *)
(* number the run assigned together with its audit string.                 *)
C7_AllOrNothing ==
    run.state \in {"failed", "crashed"} =>
        master = run.pre \/ master = run.outcome

(* C8: under a period filter a row whose trimmed period cell differs from  *)
(* the filter is in no group: it is not assigned and its invoice-number    *)
(* and audit cells stay as they were.                                      *)
C8_FilterExcludes ==
    (RunActed /\ run.month_filter # Empty) =>
        \A i \in DataRows(run.pre) :
            strip(MonthCell(run.pre, i)) # strip(run.month_filter)
            => (i \notin run.assigned_rows /\ CellsKept({i}))

(* C9: a row whose instructor key has no row in the program store is not   *)
(* assigned a number and keeps its invoice-number cell.                    *)
C9_NoHistoryNoNumber ==
    RunActed =>
        \A i \in DataRows(run.pre) :
            ~HasHistory(KeyOf(NameCell(run.pre, i)))
            => /\ i \notin run.assigned_rows
               /\ InvoiceCell(master, i) = InvoiceCell(run.pre, i)

\* a run that assigned some row left alone a row in the filter whose key
\* has no program history
C9_Witness ==
    /\ run.state = "done"
    /\ run.assigned_rows # {}
    /\ \E i \in DataRows(run.pre) :
          /\ NameCell(run.pre, i) # Empty
          /\ PassesFilter(i)
          /\ ~HasHistory(KeyOf(NameCell(run.pre, i)))
          /\ InvoiceCell(master, i) = Empty

\* a row qualifies for grouping: its key has program history and it passes
\* the period filter
Qualifies(i) ==
    /\ NameCell(run.pre, i) # Empty
    /\ HasHistory(KeyOf(NameCell(run.pre, i)))
    /\ PassesFilter(i)

(* C10: when the program store has fewer than 2 rows, or no ledger row     *)
(* qualifies for grouping, the run writes nothing to the ledger and        *)
(* reports zero assigned.                                                  *)
C10_NoOp ==
    (run.state \in {"running", "done", "crashed"}
        /\ (Len(program) < 2 \/ \A i \in DataRows(run.pre) : ~Qualifies(i))) =>
        /\ ~run.wrote
        /\ master = run.pre
        /\ dict_get(run.result, "assigned", 0) = 0


----------------------------------------------------------------------------
(* friendly_course_name: the category of a table name                      *)

UpperOf ==
    "a" :> "A" @@ "b" :> "B" @@ "c" :> "C" @@ "d" :> "D" @@ "e" :> "E" @@
    "f" :> "F" @@ "g" :> "G" @@ "h" :> "H" @@ "i" :> "I" @@ "j" :> "J" @@
    "k" :> "K" @@ "l" :> "L" @@ "m" :> "M" @@ "n" :> "N" @@ "o" :> "O" @@
    "p" :> "P" @@ "q" :> "Q" @@ "r" :> "R" @@ "s" :> "S" @@ "t" :> "T" @@
    "u" :> "U" @@ "v" :> "V" @@ "w" :> "W" @@ "x" :> "X" @@ "y" :> "Y" @@
    "z" :> "Z"

\* str.capitalize(): first character upper-cased, the rest lower-cased
capitalize(w) ==
    [i \in 1..Len(w) |->
        IF i = 1
        THEN (IF w[i] \in DOMAIN UpperOf THEN UpperOf[w[i]] ELSE w[i])
        ELSE (IF w[i] \in DOMAIN LowerOf THEN LowerOf[w[i]] ELSE w[i])]

\* re.sub('master', '', s, flags=re.I): leftmost occurrences, one pass
RECURSIVE remove_master(_)
remove_master(s) ==
    IF s = Empty THEN Empty
    ELSE IF Len(s) >= 6 /\ lower(SubSeq(s, 1, 6)) = <<"m","a","s","t","e","r">>
         THEN remove_master(SubSeq(s, 7, Len(s)))
         ELSE <<Head(s)>> \o remove_master(Tail(s))

\* '_' and '-' become spaces
dashes_to_spaces(s) ==
    [i \in 1..Len(s) |-> IF s[i] \in {"_", "-"} THEN " " ELSE s[i]]

\* the first word of a string that starts with none of the whitespace
RECURSIVE first_word(_)
first_word(s) ==
    IF s = Empty \/ Head(s) \in Whitespace THEN Empty
    ELSE <<Head(s)>> \o first_word(Tail(s))

\* the non-empty words of s, capitalized and joined by single spaces
RECURSIVE title_words(_)
title_words(s) ==
    IF lstrip(s) = Empty THEN Empty
    ELSE IF lstrip(SubSeq(lstrip(s), Len(first_word(lstrip(s))) + 1, Len(lstrip(s)))) = Empty
         THEN capitalize(first_word(lstrip(s)))
         ELSE capitalize(first_word(lstrip(s))) \o <<" ">>
              \o title_words(SubSeq(lstrip(s), Len(first_word(lstrip(s))) + 1,
                                    Len(lstrip(s))))

\* category names
DataAnalytics == <<"D","a","t","a"," ","A","n","a","l","y","t","i","c","s">>
DataScience == <<"D","a","t","a"," ","S","c","i","e","n","c","e">>
Community == <<"C","o","m","m","u","n","i","t","y"," ","L","i","v","e"," ","C","l","a","s","s","e","s">>
GenerativeAI == <<"G","e","n","e","r","a","t","i","v","e"," ","A","I">>
FullStack == <<"F","u","l","l"," ","S","t","a","c","k"," ","D","e","v","e","l","o","p","m","e","n","t">>

\* invoice_utils.COURSE_MAP
COURSE_MAP ==
    << <<<<"m","a","s","t","e","r"," ","2","5","-","2","6">>, DataAnalytics>>,
       <<<<"m","a","s","t","e","r"," ","2","5"," ","2","6">>, DataAnalytics>>,
       <<<<"m","a","s","t","e","r"," ","c","o","m","m">>, Community>>,
       <<<<"m","a","s","t","e","r"," ","c","o","m","m","u","n","i","t","y">>, Community>>,
       <<<<"m","a","s","t","e","r"," ","d","s">>, DataScience>>,
       <<<<"m","a","s","t","e","r"," ","d","a","t","a"," ","s","c","i","e","n","c","e">>, DataScience>>,
       <<<<"m","a","s","t","e","r"," ","d","a">>, DataAnalytics>>,
       <<<<"d","a">>, DataAnalytics>>,
       <<<<"d","a","t","a"," ","a","n","a","l","y","t","i","c","s">>, DataAnalytics>>,
       <<<<"d","s">>, DataScience>>,
       <<<<"g","e","n"," ","a","i">>, GenerativeAI>>,
       <<<<"g","e","n","a","i">>, GenerativeAI>>,
       <<<<"m","a","s","t","e","r"," ","g","e","n"," ","a","i">>, GenerativeAI>>,
       <<<<"m","a","s","t","e","r"," ","f","s","d">>, FullStack>>,
       <<<<"f","s","d">>, FullStack>> >>

\* run_create_invoices.friendly_course_name: map_pairs
map_pairs ==
    COURSE_MAP \o
    << <<<<"f","u","l","l"," ","s","t","a","c","k">>, FullStack>>,
       <<<<"m","a","s","t","e","r"," ","f","u","l","l"," ","s","t","a","c","k">>, FullStack>> >>

NoRule == <<"no rule">>

C19_mut_first_rule(pairs, k, s) ==
    IF \E j \in 1..Len(pairs) : contains(pairs[j][1], s)
    THEN pairs[Max({j \in 1..Len(pairs) : contains(pairs[j][1], s)})][2]
    ELSE NoRule

\* for k,v in pairs: if k in s: return v  -- from rule k on
RECURSIVE first_rule(_, _, _)
first_rule(pairs, k, s) ==
    IF k > Len(pairs) THEN NoRule
    ELSE IF contains(pairs[k][1], s) THEN pairs[k][2]
    ELSE first_rule(pairs, k + 1, s)

\* invoice_utils: the fallback when no rule matches
utils_fallback_name(sheet_name) ==
    title_words(strip(dashes_to_spaces(remove_master(sheet_name))))

\* run_create_invoices: the fallback when no rule matches
run_fallback_name(sheet_name) ==
    IF title_words(strip(dashes_to_spaces(remove_master(sheet_name)))) # Empty
    THEN title_words(strip(dashes_to_spaces(remove_master(sheet_name))))
    ELSE sheet_name

or_else(found, fallback) == IF found # NoRule THEN found ELSE fallback

\* invoice_utils.friendly_course_name
utils_friendly_course_name(sheet_name) ==
    IF sheet_name = Empty THEN Empty
    ELSE or_else(first_rule(COURSE_MAP, 1, lower(sheet_name)),
                 utils_fallback_name(sheet_name))

\* run_create_invoices.friendly_course_name
run_friendly_course_name(sheet_name) ==
    IF sheet_name = Empty THEN Empty
    ELSE or_else(first_rule(map_pairs, 1, lower(sheet_name)),
                 run_fallback_name(sheet_name))


\* pieces table names are made of
NameParts ==
    { <<"M","a","s","t","e","r"," ">>, <<"M","A","S","T","E","R"," ">>, <<"D","S">>, <<" ","D","A">>, <<"D","a","t","a"," ","S","c","i","e","n","c","e">>, <<"G","e","n"," ","A","I">>,
      <<"g","e","n","a","i">>, <<"F","S","D">>, <<"F","u","l","l"," ","S","t","a","c","k">>, <<"C","o","m","m">>, <<"2","5","-","2","6">>, <<"_","n","e","w","-","t","a","b">>,
      <<"C","l","o","u","d">>, <<" ","m","l"," ","o","p","s"," ">> }

MaxParts == 2

\* table names of up to MaxParts pieces, the empty name included
RECURSIVE NamesOf(_)
NamesOf(n) ==
    IF n = 0 THEN {Empty}
    ELSE NamesOf(n - 1) \cup {a \o b : a \in NamesOf(n - 1), b \in NameParts}

TableNames == NamesOf(MaxParts)

NotClassified == [by |-> "none", name |-> <<>>]

\* the ledger at rest while names are classified
LedgerIdle ==
    /\ master = <<>>
    /\ program = <<>>
    /\ config = <<>>
    /\ pc = "idle"
    /\ pending = NoPending
    /\ run = NoRun

ClassifyInit ==
    /\ table_name \in TableNames
    /\ course = NotClassified
    /\ LedgerIdle
    /\ AggIdle
    /\ LinksIdle
    /\ JobIdle
    /\ RetryIdle

\* invoice_utils.friendly_course_name(table_name)
ClassifyUtils ==
    /\ course = NotClassified
    /\ course' = [by |-> "utils", name |-> utils_friendly_course_name(table_name)]
    /\ UNCHANGED <<table_name, beyond_classify>>

\* run_create_invoices.friendly_course_name(table_name)
ClassifyRun ==
    /\ course = NotClassified
    /\ course' = [by |-> "run", name |-> run_friendly_course_name(table_name)]
    /\ UNCHANGED <<table_name, beyond_classify>>

ClassifyNext == ClassifyUtils \/ ClassifyRun

SpecClassify == ClassifyInit /\ [][ClassifyNext]_vars

\* the rule list of the implementation that classified
RulesUsed == IF course.by = "utils" THEN COURSE_MAP ELSE map_pairs

\* the rules whose pattern the lower-cased name contains
Matching == {k \in 1..Len(RulesUsed) : contains(RulesUsed[k][1], lower(table_name))}

\* the fallback of the implementation that classified
FallbackUsed ==
    IF course.by = "utils" THEN utils_fallback_name(table_name)
    ELSE run_fallback_name(table_name)

(* C19: the classifier returns the category of the lowest-index rule whose  *)
(* pattern is a case-insensitive substring of the table name, and the       *)
(* fallback (strip "master", title-case) only when no rule matches.         *)
C19_FirstRuleWins ==
    course # NotClassified =>
        /\ Matching # {} => course.name = RulesUsed[Min(Matching)][2]
        /\ Matching = {} => course.name = FallbackUsed

\* a name that several rules of different categories match was classified
C19_Witness ==
    /\ course # NotClassified
    /\ \E j, k \in Matching : RulesUsed[j][2] # RulesUsed[k][2]

\* a name no rule matches was classified by the fallback
C19_FallbackWitness ==
    /\ course # NotClassified
    /\ Matching = {}
    /\ table_name = <<"M","A","S","T","E","R"," ","_","n","e","w","-","t","a","b">>
    /\ course.name = <<"N","e","w"," ","T","a","b">>


----------------------------------------------------------------------------
(* aggregate_from_effort: totals per instructor and category                *)

\* the first header, from the left, that contains any of the keys; -1 if none
find_header_index(headers, keys) ==
    IF \E i \in 1..Len(headers) : \E k \in 1..Len(keys) :
            contains(keys[k], lower(headers[i]))
    THEN Min({i \in 1..Len(headers) : \E k \in 1..Len(keys) :
                contains(keys[k], lower(headers[i]))}) - 1
    ELSE -1

AmountKeys == << <<"f","i","n","a","l"," ","r","o","u","n","d">>, <<"f","i","n","a","l"," ","a","m","o","u","n","t">>, <<"a","m","o","u","n","t">> >>

AmountChars == {"0", "1", "2", "3", "4", "5", "6", "7", "8", "9", ".", "-"}

\* re.sub(r'[^0-9.\-]', '', s)
clean_amount(s) == SelectSeq(s, LAMBDA c : c \in AmountChars)

\* the digits of d as thousandths: d is the text after the decimal point
frac_mills(d) ==
    IF Len(d) = 0 THEN 0
    ELSE IF Len(d) = 1 THEN 100 * int_of(d)
    ELSE IF Len(d) = 2 THEN 10 * int_of(d)
    ELSE int_of(SubSeq(d, 1, 3))

\* position of the first "." of s, Len(s) + 1 when there is none
dot_at(s) ==
    IF \E i \in 1..Len(s) : s[i] = "."
    THEN Min({i \in 1..Len(s) : s[i] = "."})
    ELSE Len(s) + 1

\* whether an unsigned text is a decimal literal: digits with at most one "."
is_decimal(s) ==
    /\ \E i \in 1..Len(s) : IsDigit(s[i])
    /\ \A i \in 1..Len(s) : IsDigit(s[i]) \/ (s[i] = "." /\ i = dot_at(s))

\* an unsigned decimal literal in thousandths
unsigned_mills(s) ==
    1000 * int_of(SubSeq(s, 1, dot_at(s) - 1))
    + frac_mills(SubSeq(s, dot_at(s) + 1, Len(s)))

\* Decimal(cleaned) / float(cleaned), in thousandths; 0 when it raises
decimal_mills(cleaned) ==
    IF cleaned # Empty /\ Head(cleaned) = "-"
    THEN (IF is_decimal(Tail(cleaned)) THEN 0 - unsigned_mills(Tail(cleaned)) ELSE 0)
    ELSE (IF is_decimal(cleaned) THEN unsigned_mills(cleaned) ELSE 0)

\* parse_amount(raw), in thousandths
parse_amount(raw) ==
    IF clean_amount(raw) \in {Empty, <<".">>, <<"-">>} THEN 0
    ELSE decimal_mills(clean_amount(raw))

\* round2_decimal: to two places, half up, in thousandths
round2_decimal(m) ==
    IF m >= 0 THEN ((m + 5) \div 10) * 10
    ELSE 0 - (((0 - m) + 5) \div 10) * 10

\* re.search(r'master', title, re.I)
is_master_title(title) == contains(<<"m","a","s","t","e","r">>, lower(title))

\* the three columns of an effort table
effort_columns(headers) ==
    [sme |-> find_header_index(headers, SmeKeys),
     month |-> find_header_index(headers, MonthKeys),
     amt |-> find_header_index(headers, AmountKeys)]

\* invoice_utils: whether the period cell makes the row be passed over
utils_month_skips(month_cell, selected_month) ==
    month_cell # Empty /\ strip(month_cell) # strip(selected_month)

\* run_create_invoices: whether the period cell makes the row be passed over
run_month_skips(month_cell, selected_month) ==
    strip(month_cell) = Empty \/ strip(month_cell) # selected_month

\* totals[key] = totals.get(key, 0) + amt
add_total(totals, key, amt) ==
    [k \in DOMAIN totals \cup {key} |->
        IF k = key THEN dict_get(totals, key, 0) + amt ELSE totals[k]]

\* invoice_utils: the key of a total
utils_total_key(sme, category) == strip(sme) \o <<"|">> \o category

\* run_create_invoices: the key of a total
run_total_key(sme, category) == <<strip(sme), category>>


\* whether a data row adds its amount to a total
row_counts(by, row, cols, selected_month) ==
    /\ IF by = "utils"
       THEN ~ utils_month_skips(py_cell(row, cols.month), selected_month)
       ELSE ~ run_month_skips(py_cell(row, cols.month), selected_month)
    /\ strip(py_cell(row, cols.sme)) # Empty

total_key(by, sme, category) ==
    IF by = "utils" THEN utils_total_key(sme, category)
    ELSE run_total_key(sme, category)

friendly_course_name(by, title) ==
    IF by = "utils" THEN utils_friendly_course_name(title)
    ELSE run_friendly_course_name(title)

\* the loop over vals[1:], from row i on
RECURSIVE add_rows(_, _, _, _, _, _, _)
add_rows(by, category, vals, cols, selected_month, i, totals) ==
    IF i > Len(vals) THEN totals
    ELSE add_rows(by, category, vals, cols, selected_month, i + 1,
            IF row_counts(by, vals[i], cols, selected_month)
            THEN add_total(totals,
                    total_key(by, py_cell(vals[i], cols.sme), category),
                    parse_amount(py_cell(vals[i], cols.amt)))
            ELSE totals)

\* whether a table that was read has data rows and the columns needed
table_usable(vals) ==
    /\ Len(vals) >= 2
    /\ effort_columns(vals[1]).sme # -1
    /\ effort_columns(vals[1]).amt # -1

\* the body of the loop over titles, once the table's values are read
add_table(by, title, vals, selected_month, totals) ==
    IF ~ table_usable(vals) THEN totals
    ELSE add_rows(by, friendly_course_name(by, title), vals,
                  effort_columns(vals[1]), selected_month, 2, totals)

\* the rows of a table whose amounts were added
rows_counted(by, vals, selected_month) ==
    IF ~ table_usable(vals) THEN {}
    ELSE {i \in 2..Len(vals) :
            row_counts(by, vals[i], effort_columns(vals[1]), selected_month)}

\* what the call returns: invoice_utils rounds each total, the other does not
returned_totals(by, totals) ==
    IF by = "utils" THEN [k \in DOMAIN totals |-> round2_decimal(totals[k])]
    ELSE totals

\* the effort tables the model draws its workbooks from
EffortTables ==
    << [title |-> <<"M","a","s","t","e","r"," ","D","S">>,
        vals |-> << << <<"M","o","n","t","h">>, <<"S","M","E">>, <<"F","i","n","a","l"," ","A","m","o","u","n","t">> >>,
                    << <<"S","e","p"," ","2","0","2","5">>, <<"J","a","n","e"," ","D","o","e">>, <<"1","2","0","0",".","0","0","5">> >>,
                    << <<"O","c","t"," ","2","0","2","5">>, <<"J","a","n","e"," ","D","o","e">>, <<"5","0","0">> >>,
                    << Empty, <<" ","J","a","n","e"," ","D","o","e"," ">>, <<"1","0">> >> >>],
       [title |-> <<"M","a","s","t","e","r"," ","D","A">>,
        vals |-> << << <<"S","M","E"," ","N","a","m","e">>, <<"A","m","o","u","n","t">> >>,
                    << <<"J","a","n","e"," ","D","o","e">>, <<"1","0","0">> >>,
                    << <<"B","o","b">>, <<"7",".","5">>, <<"S","e","p"," ","2","0","2","5">> >> >>],
       [title |-> <<"C","o","m","m"," ","M","A","S","T","E","R">>,
        vals |-> << << <<"B","i","l","l","i","n","g"," ","M","o","n","t","h">>, <<"I","n","s","t","r","u","c","t","o","r">>, <<"F","i","n","a","l"," ","R","o","u","n","d">> >>,
                    << <<" ","S","e","p"," ","2","0","2","5"," ">>, <<"B","o","b">>, <<"$","1",",","0","0","0",".","5","0">> >>,
                    << <<"S","e","p"," ","2","0","2","5">>, <<" "," ">>, <<"5">> >>,
                    << <<"S","e","p"," ","2","0","2","5">>, <<"B","o","b">>, <<"n","/","a">> >> >>],
       [title |-> <<"A","r","c","h","i","v","e">>,
        vals |-> << << <<"M","o","n","t","h">>, <<"S","M","E">>, <<"A","m","o","u","n","t">> >>,
                    << <<"S","e","p"," ","2","0","2","5">>, <<"J","a","n","e"," ","D","o","e">>, <<"1">> >> >>],
       [title |-> <<"M","a","s","t","e","r"," ","F","S","D">>,
        vals |-> << << <<"M","o","n","t","h">>, <<"H","o","u","r","s">> >>,
                    << <<"S","e","p"," ","2","0","2","5">>, <<"3">> >> >>] >>

MaxTables == 2

\* workbooks of up to n tables, no table twice
RECURSIVE Workbooks(_)
Workbooks(n) ==
    IF n = 0 THEN {<<>>}
    ELSE Workbooks(n - 1) \cup
         {Append(w, EffortTables[a]) :
            w \in {v \in Workbooks(n - 1) : Len(v) = n - 1},
            a \in 1..Len(EffortTables)}

EffortStores ==
    {w \in Workbooks(MaxTables) :
        \A i, j \in 1..Len(w) : i # j => w[i] # w[j]}

EmptyTotals == [k \in {} |-> 0]

AggInit ==
    /\ effort \in EffortStores
    /\ agg = NoAgg
    /\ LedgerIdle
    /\ ClassifyIdle
    /\ LinksIdle
    /\ JobIdle
    /\ RetryIdle

\* aggregate_from_effort is called: the titles are listed
AggStart(by, selected_month) ==
    /\ agg.status = "idle"
    /\ agg' = [agg EXCEPT !.by = by, !.selected_month = selected_month,
                          !.next = 1, !.status = "running",
                          !.totals = EmptyTotals]
    /\ UNCHANGED <<effort, beyond_agg>>

\* a title without "master" is passed over, unread
AggPassOver ==
    /\ agg.status = "running"
    /\ agg.next <= Len(effort)
    /\ ~ is_master_title(effort[agg.next].title)
    /\ agg' = [agg EXCEPT !.next = @ + 1]
    /\ UNCHANGED <<effort, beyond_agg>>

\* the next table is read and its rows are added
AggTable ==
    /\ agg.status = "running"
    /\ agg.next <= Len(effort)
    /\ is_master_title(effort[agg.next].title)
    /\ agg' = [agg EXCEPT
            !.next = @ + 1,
            !.totals = add_table(agg.by, effort[agg.next].title,
                                 effort[agg.next].vals, agg.selected_month, @),
            !.counted = @ \cup
                {<<agg.next, i>> : i \in rows_counted(agg.by,
                        effort[agg.next].vals, agg.selected_month)}]
    /\ UNCHANGED <<effort, beyond_agg>>

\* the read of the next table fails: invoice_utils retries and then lets the
\* error out of the call, run_create_invoices warns and goes on
AggReadFails ==
    /\ agg.status = "running"
    /\ agg.next <= Len(effort)
    /\ is_master_title(effort[agg.next].title)
    /\ agg' = [agg EXCEPT
            !.failed = @ \cup {agg.next},
            !.next = IF agg.by = "utils" THEN @ ELSE @ + 1,
            !.status = IF agg.by = "utils" THEN "raised" ELSE @]
    /\ UNCHANGED <<effort, beyond_agg>>

\* every title was looked at: the totals are returned
AggReturn ==
    /\ agg.status = "running"
    /\ agg.next > Len(effort)
    /\ agg' = [agg EXCEPT !.status = "done",
                          !.totals = returned_totals(agg.by, @)]
    /\ UNCHANGED <<effort, beyond_agg>>

AggNext ==
    \/ \E by \in {"utils", "run"}, m \in Months : AggStart(by, m)
    \/ AggPassOver
    \/ AggTable
    \/ AggReadFails
    \/ AggReturn

SpecAgg == AggInit /\ [][AggNext]_vars


----------------------------------------------------------------------------
\* the cell of a row under the 0-based column col, empty past the row's end
CellUnder(row, col) == IF col + 1 <= Len(row) THEN row[col + 1] ELSE Empty

HasPeriodColumn(headers) ==
    \E i \in 1..Len(headers) : contains(<<"m","o","n","t","h">>, lower(headers[i]))

\* table t of the workbook was read and its rows were gone through
WasAggregated(t) ==
    /\ agg.status \in {"running", "done"}
    /\ t < agg.next
    /\ t \notin agg.failed
    /\ is_master_title(effort[t].title)
    /\ table_usable(effort[t].vals)

NamesInstructor(t, i) ==
    strip(CellUnder(effort[t].vals[i], effort_columns(effort[t].vals[1]).sme)) # Empty

PeriodOf(t, i) ==
    CellUnder(effort[t].vals[i], effort_columns(effort[t].vals[1]).month)

(* C14: in a table with a period column, a data row with a non-blank        *)
(* instructor cell adds its amount to a total exactly when its period cell  *)
(* is blank or equals the target period after trimming.                    *)
C14_PeriodFilter ==
    \A t \in 1..Len(effort) :
        (WasAggregated(t) /\ HasPeriodColumn(effort[t].vals[1])) =>
            \A i \in 2..Len(effort[t].vals) :
                NamesInstructor(t, i) =>
                    (<<t, i>> \in agg.counted <=>
                        \/ strip(PeriodOf(t, i)) = Empty
                        \/ strip(PeriodOf(t, i)) = strip(agg.selected_month))

(* C15: in a table with no period column, every data row with a non-blank   *)
(* instructor cell adds its amount, for any target period and whatever its *)
(* other cells hold.                                                       *)
C15_NoPeriodColumn ==
    \A t \in 1..Len(effort) :
        (WasAggregated(t) /\ ~ HasPeriodColumn(effort[t].vals[1])) =>
            \A i \in 2..Len(effort[t].vals) :
                NamesInstructor(t, i) => <<t, i>> \in agg.counted

\* the totals of the tables from t on, those in skip left out
RECURSIVE TotalsLeavingOut(_, _, _, _, _)
TotalsLeavingOut(by, selected_month, skip, t, totals) ==
    IF t > Len(effort) THEN totals
    ELSE TotalsLeavingOut(by, selected_month, skip, t + 1,
            IF t \in skip \/ ~ is_master_title(effort[t].title) THEN totals
            ELSE add_table(by, effort[t].title, effort[t].vals,
                           selected_month, totals))

(* C16: when the read of a qualifying table fails, the aggregation still   *)
(* completes, and what it returns is the totals of the other tables.       *)
C16_ReadFailureSkipsTable ==
    agg.failed # {} =>
        /\ agg.status # "raised"
        /\ agg.status = "done" =>
            agg.totals = returned_totals(agg.by,
                TotalsLeavingOut(agg.by, agg.selected_month, agg.failed, 1,
                                 EmptyTotals))


----------------------------------------------------------------------------
(* build_sme_links_map and populate_tracker_links_and_emails               *)

\* re.sub(r"\s+", " ", str(x or "").strip()).lower()
normalize_name(x) == lower(collapse_ws(strip(x)))

starts_with(p, s) == Len(s) >= Len(p) /\ SubSeq(s, 1, Len(p)) = p

\* re.match(r'^https?:\/\/', cell.strip(), re.I)
utils_is_url(c) ==
    \/ starts_with(<<"h","t","t","p",":","/","/">>, lower(strip(c)))
    \/ starts_with(<<"h","t","t","p","s",":","/","/">>, lower(strip(c)))

\* the first of r[2:10] that looks like a URL, stripped; "" when none
utils_row_url(r) ==
    IF \E j \in 3..Min({10, Len(r)}) : utils_is_url(r[j])
    THEN strip(r[Min({j \in 3..Min({10, Len(r)}) : utils_is_url(r[j])})])
    ELSE Empty

\* r[7], stripped, when it starts with "http"; "" otherwise
run_row_url(r) ==
    IF Len(r) >= 8 /\ starts_with(<<"h","t","t","p">>, lower(strip(r[8])))
    THEN strip(r[8])
    ELSE Empty

row_url(by, r) == IF by = "utils" THEN utils_row_url(r) ELSE run_row_url(r)

\* d[k] = v
dict_put(d, k, v) ==
    [x \in DOMAIN d \cup {k} |-> IF x = k THEN v ELSE d[x]]

\* {"__any": [], "__email": "", "__courses": []}: the links filed under a
\* category are kept apart, in link
NewRecord == [any |-> <<>>, email |-> Empty, courses |-> <<>>, link |-> <<>>]

with_email(rec, email) ==
    IF email # Empty /\ rec.email = Empty
    THEN [rec EXCEPT !.email = strip(email)]
    ELSE rec

\* links_map[name_norm][course] = url; links_map[name_norm]["__any"].append(url)
with_url(rec, url, category) ==
    IF url # Empty
    THEN [rec EXCEPT !.link = dict_put(@, category, url),
                     !.any = Append(@, url)]
    ELSE rec

with_course(rec, category) ==
    IF \E j \in 1..Len(rec.courses) : rec.courses[j] = category
    THEN rec
    ELSE [rec EXCEPT !.courses = Append(@, category)]

\* one registry row with a name, taken into the links map
note_row(by, links_map, r, category) ==
    dict_put(links_map, normalize_name(r[1]),
        with_course(
            with_url(
                with_email(dict_get(links_map, normalize_name(r[1]), NewRecord),
                           cell(r, 1)),
                row_url(by, r), category),
            category))

\* the loop over the rows of one tab, from row i on
RECURSIVE note_rows(_, _, _, _, _)
note_rows(by, links_map, vals, category, i) ==
    IF i > Len(vals) THEN links_map
    ELSE note_rows(by,
            IF strip(cell(vals[i], 0)) = Empty THEN links_map
            ELSE note_row(by, links_map, vals[i], category),
            vals, category, i + 1)

\* the loop over the tabs, from tab t on
RECURSIVE note_tabs(_, _, _, _)
note_tabs(by, links_map, tabs, t) ==
    IF t > Len(tabs) THEN links_map
    ELSE note_tabs(by,
            IF lower(tabs[t].title) = <<"o","n","b","o","a","r","d","e","d">> THEN links_map
            ELSE note_rows(by, links_map, tabs[t].vals,
                           friendly_course_name(by, tabs[t].title), 2),
            tabs, t + 1)

\* build_sme_links_map: run_create_invoices first reads the workbook's first
\* tab and returns an empty map when that has no data row
build_sme_links_map(by, tabs) ==
    IF by = "run" /\ (Len(tabs) = 0 \/ Len(tabs[1].vals) < 2) THEN <<>>
    ELSE note_tabs(by, <<>>, tabs, 1)


hyperlink(url) == <<"=","H","Y","P","E","R","L","I","N","K","(">> \o <<"\"">> \o url \o <<"\"">> \o <<",">> \o <<"\"">> \o <<"T","r","a","c","k","e","r"," ","L","i","n","k">> \o <<"\"">> \o <<")">>

\* invoice_utils: the category's link, else the first of any links
utils_found_url(links_map, instr, category) ==
    IF normalize_text(instr) \notin DOMAIN links_map THEN Empty
    ELSE IF category \in DOMAIN links_map[normalize_text(instr)].link
         THEN links_map[normalize_text(instr)].link[category]
    ELSE IF links_map[normalize_text(instr)].any # <<>>
         THEN links_map[normalize_text(instr)].any[1]
    ELSE Empty

\* run_create_invoices: the category's link or nothing
run_found_url(links_map, instr, category) ==
    IF /\ normalize_name(instr) # Empty
       /\ normalize_name(instr) \in DOMAIN links_map
       /\ category # Empty
       /\ category \in DOMAIN links_map[normalize_name(instr)].link
    THEN links_map[normalize_name(instr)].link[category]
    ELSE Empty

found_url(by, links_map, row) ==
    IF by = "utils" THEN utils_found_url(links_map, cell(row, 1), cell(row, 2))
    ELSE run_found_url(links_map, cell(row, 1), cell(row, 2))

found_email(by, links_map, row) ==
    IF normalize_name(cell(row, 1)) \in DOMAIN links_map
       /\ (by = "utils" \/ normalize_name(cell(row, 1)) # Empty)
    THEN links_map[normalize_name(cell(row, 1))].email
    ELSE Empty

tracker_cell(url, orig) == IF url # Empty THEN hyperlink(url) ELSE orig

email_cell(email, existing_email) ==
    IF email # Empty /\ strip(email) # strip(existing_email) THEN email
    ELSE existing_email

tracker_out(by, links_map, sheet) ==
    [i \in 1..(Len(sheet) - 1) |->
        tracker_cell(found_url(by, links_map, sheet[i + 1]), cell(sheet[i + 1], 3))]

email_out(by, links_map, sheet) ==
    [i \in 1..(Len(sheet) - 1) |->
        email_cell(found_email(by, links_map, sheet[i + 1]), cell(sheet[i + 1], 9))]

\* populate_tracker_links_and_emails: column D, then column J
populate_tracker_links_and_emails(by, sheet, links_map) ==
    IF Len(sheet) < 2 THEN sheet
    ELSE update_values(
            update_values(sheet, 3, tracker_out(by, links_map, sheet)),
            9, email_out(by, links_map, sheet))

\* registry tabs the model draws its workbooks from: name, email, and a
\* link in column H or, in the last, in column C
ContactTabs ==
    << [title |-> <<"D","S">>,
        vals |-> << << <<"N","a","m","e">>, <<"E","m","a","i","l">> >>,
                    << JaneDoe, <<"j","a","n","e","@","x",".","i","o">>, Empty, Empty, Empty, Empty, Empty, <<"h","t","t","p",":","/","/","a">> >>,
                    << JaneAlt, <<"j","d","@","y",".","i","o">>, Empty, Empty, Empty, Empty, Empty, <<" ","h","t","t","p","s",":","/","/","b">> >> >>],
       [title |-> <<"M","a","s","t","e","r"," ","D","S">>,
        vals |-> << << <<"N","a","m","e">>, <<"E","m","a","i","l">> >>,
                    << JaneDoe, Empty, Empty, Empty, Empty, Empty, Empty, <<"h","t","t","p",":","/","/","c">> >> >>],
       [title |-> <<"O","n","b","o","a","r","d","e","d">>,
        vals |-> << << <<"N","a","m","e">>, <<"E","m","a","i","l">> >>,
                    << Bob, <<"b","o","b","@","x",".","i","o">>, Empty, Empty, Empty, Empty, Empty, <<"h","t","t","p",":","/","/","d">> >> >>],
       [title |-> <<"D","A">>,
        vals |-> << << <<"N","a","m","e">>, <<"E","m","a","i","l">>, <<"L","i","n","k">> >>,
                    << Bob, <<" ","b","o","b","@","z",".","i","o"," ">>, <<"H","T","T","P",":","/","/","e">> >>,
                    << Empty, <<"n","o","b","o","d","y","@","x",".","i","o">> >> >>] >>

MaxTabs == 2

RECURSIVE Registries(_)
Registries(n) ==
    IF n = 0 THEN {<<>>}
    ELSE Registries(n - 1) \cup
         {Append(w, ContactTabs[a]) :
            w \in {v \in Registries(n - 1) : Len(v) = n - 1},
            a \in 1..Len(ContactTabs)}

\* workbooks of up to MaxTabs tabs, no tab twice
ContactStores ==
    {w \in Registries(MaxTabs) : \A i, j \in 1..Len(w) : i # j => w[i] # w[j]}

LinkHeader ==
    <<HdrMonth, HdrSme, HdrCourse, HdrTracker, HdrAmount, HdrPeriod,
      HdrLastDate, HdrNumber, HdrDated, HdrEmail>>

ledger_row(sme, category, tracker, email) ==
    trim_row(<<Sep, sme, category, tracker, <<"1","0","0",".","0">>, Sep, ADate, Empty, ADate, email>>)

LedgerRowChoices ==
    { ledger_row(JaneDoe, DataAnalytics, Empty, Empty),
      ledger_row(JaneAlt, DataScience, <<"k","e","p","t">>, <<"j","a","n","e","@","x",".","i","o">>),
      ledger_row(Bob, DataAnalytics, Empty, <<"o","l","d","@","x",".","i","o">>),
      ledger_row(Bob, DataScience, <<"k","e","p","t">>, Empty) }

LinkLedgers == {<<LinkHeader>> \o rows : rows \in SeqsUpTo(LedgerRowChoices, MaxRows)}

LinksInit ==
    /\ contacts \in ContactStores
    /\ links = NoLinks
    /\ master \in LinkLedgers
    /\ program = <<>>
    /\ config = <<>>
    /\ pc = "idle"
    /\ pending = NoPending
    /\ run = NoRun
    /\ ClassifyIdle
    /\ AggIdle
    /\ JobIdle
    /\ RetryIdle

\* build_sme_links_map of either implementation, called by itself
BuildLinks(by) ==
    /\ links.status = "idle"
    /\ links' = [links EXCEPT !.by = by, !.status = "built",
                              !.links_map = build_sme_links_map(by, contacts)]
    /\ UNCHANGED <<master, contacts, beyond_links>>

\* invoice_utils.populate_tracker_links_and_emails with the map built before
UtilsPopulate ==
    /\ links.status = "built"
    /\ links.by = "utils"
    /\ master' = populate_tracker_links_and_emails("utils", master, links.links_map)
    /\ links' = [links EXCEPT !.status = "populated", !.pre = master]
    /\ UNCHANGED <<contacts, beyond_links>>

\* run_create_invoices.populate_tracker_links_and_emails: it builds the map
\* itself once the ledger has a data row
RunPopulate ==
    /\ links.status = "idle"
    /\ master' = populate_tracker_links_and_emails("run", master,
                    build_sme_links_map("run", contacts))
    /\ links' = [by |-> "run", status |-> "populated", pre |-> master,
                 links_map |-> IF Len(master) < 2 THEN <<>>
                               ELSE build_sme_links_map("run", contacts)]
    /\ UNCHANGED <<contacts, beyond_links>>

LinksNext ==
    \/ \E by \in {"utils", "run"} : BuildLinks(by)
    \/ UtilsPopulate
    \/ RunPopulate

SpecLinks == LinksInit /\ [][LinksNext]_vars


----------------------------------------------------------------------------
TrackerCell(sheet, i) == cell(sheet[i + 1], 3)

\* the registry record of the instructor of data row i, NewRecord when none
RecordOf(sheet, i) ==
    dict_get(links.links_map, normalize_name(cell(sheet[i + 1], 1)), NewRecord)

(* C12: a ledger row's tracker cell is filled only with the URL its        *)
(* instructor's contact record files under the row's own category; when    *)
(* the record has no URL under that category the cell keeps what it held.  *)
C12_CategoryExact ==
    links.status = "populated" =>
        \A i \in 1..(Len(links.pre) - 1) :
            \/ TrackerCell(master, i) = TrackerCell(links.pre, i)
            \/ /\ cell(links.pre[i + 1], 2) \in DOMAIN RecordOf(links.pre, i).link
               /\ TrackerCell(master, i) =
                    hyperlink(RecordOf(links.pre, i).link[cell(links.pre[i + 1], 2)])

\* places <<t, i>> of the registry rows, in scan order, that carry a URL for
\* the identity under the category
PlacesOf(name, category) ==
    {p \in {<<t, i>> : t \in 1..Len(contacts), i \in 2..4} :
        /\ p[2] <= Len(contacts[p[1]].vals)
        /\ lower(contacts[p[1]].title) # <<"o","n","b","o","a","r","d","e","d">>
        /\ friendly_course_name(links.by, contacts[p[1]].title) = category
        /\ strip(cell(contacts[p[1]].vals[p[2]], 0)) # Empty
        /\ normalize_name(contacts[p[1]].vals[p[2]][1]) = name
        /\ row_url(links.by, contacts[p[1]].vals[p[2]]) # Empty}

Earlier(p, q) == p[1] < q[1] \/ (p[1] = q[1] /\ p[2] <= q[2])

FirstPlace(S) == CHOOSE p \in S : \A q \in S : Earlier(p, q)

(* C13: in the registry built, the link an identity has under a category   *)
(* is the first URL seen for that pair in scan order.                      *)
C13_FirstLinkWins ==
    links.status # "idle" =>
        \A name \in DOMAIN links.links_map :
            \A category \in DOMAIN links.links_map[name].link :
                /\ PlacesOf(name, category) # {}
                /\ links.links_map[name].link[category] =
                     row_url(links.by,
                        contacts[FirstPlace(PlacesOf(name, category))[1]]
                            .vals[FirstPlace(PlacesOf(name, category))[2]])


----------------------------------------------------------------------------
(* run(selected_month): aggregate, append, populate, assign, mark          *)

\* the totals of the workbook's tables from t on, as run_create_invoices
\* adds them up when every read succeeds
RECURSIVE run_totals(_, _, _, _)
run_totals(workbook, selected_month, t, totals) ==
    IF t > Len(workbook) THEN totals
    ELSE run_totals(workbook, selected_month, t + 1,
            IF ~ is_master_title(workbook[t].title) THEN totals
            ELSE add_table("run", workbook[t].title, workbook[t].vals,
                           selected_month, totals))

\* where the rows that add to a key stand, tables before rows
places_of_key(workbook, selected_month, key) ==
    UNION {{t * 1000 + i :
                i \in {r \in rows_counted("run", workbook[t].vals, selected_month) :
                        run_total_key(cell(workbook[t].vals[r],
                                           effort_columns(workbook[t].vals[1]).sme),
                                      run_friendly_course_name(workbook[t].title)) = key}} :
            t \in {u \in 1..Len(workbook) : is_master_title(workbook[u].title)}}

\* the keys of a dict in the order they were first put in
RECURSIVE items_order(_, _, _)
items_order(workbook, selected_month, keys) ==
    IF keys = {} THEN <<>>
    ELSE <<CHOOSE k \in keys : \A o \in keys :
                Min(places_of_key(workbook, selected_month, k))
                    <= Min(places_of_key(workbook, selected_month, o))>>
         \o items_order(workbook, selected_month,
                keys \ {CHOOSE k \in keys : \A o \in keys :
                    Min(places_of_key(workbook, selected_month, k))
                        <= Min(places_of_key(workbook, selected_month, o))})

\* round(float(n) + 1e-9, 2), in thousandths
round2(m) == ((m + 5) \div 10) * 10

\* a rounded amount as the cell shows it: 1200.01, 7.5, 100.0
amount_text(m) ==
    str_int(m \div 1000) \o <<".">> \o
    (IF (m \div 10) % 10 = 0 THEN str_int((m \div 100) % 10)
     ELSE str_int((m \div 100) % 10) \o str_int((m \div 10) % 10))

\* the row run() builds for one total; the period of a month label that
\* names no calendar month in full is the label itself
run_row(selected_month, key, amount) ==
    <<selected_month, key[1], key[2], Empty, amount_text(round2(amount)),
      selected_month, ADate, Empty, ADate, Empty>>

\* the rows run() builds from the totals, in the order of totals.items()
rows_of_totals(selected_month, totals, order) ==
    [j \in 1..Len(order) |-> run_row(selected_month, order[j], totals[order[j]])]

build_rows(workbook, selected_month) ==
    rows_of_totals(selected_month,
        run_totals(workbook, selected_month, 1, EmptyTotals),
        items_order(workbook, selected_month,
            DOMAIN run_totals(workbook, selected_month, 1, EmptyTotals)))

Required ==
    {"GCP_SA_KEY", "MASTER_SHEET_ID", "EFFORT_SHEET_ID", "SME_SHEET_ID",
     "PROGRAM_SHEET_ID"}

\* the identifiers the store calls of a stage are made with
needs(stage) ==
    IF stage = "aggregate" THEN {"EFFORT_SHEET_ID"}
    ELSE IF stage = "append" THEN {"MASTER_SHEET_ID"}
    ELSE IF stage = "populate" THEN {"MASTER_SHEET_ID", "SME_SHEET_ID"}
    ELSE IF stage = "assign" THEN {"MASTER_SHEET_ID", "PROGRAM_SHEET_ID"}
    ELSE {"MASTER_SHEET_ID"}

C17_mut_caught(stage) == stage = "assign"

\* the stages run() calls inside try/except
caught(stage) == stage \in {"populate", "assign"}

after(stage) ==
    IF stage = "aggregate" THEN "append"
    ELSE IF stage = "append" THEN "populate"
    ELSE IF stage = "populate" THEN "assign"
    ELSE IF stage = "assign" THEN "mark"
    ELSE "idle"

MaxRuns == 2

RunEfforts ==
    { <<EffortTables[1]>>, <<EffortTables[3]>>, <<EffortTables[1], EffortTables[3]>> }

RunContacts == { <<>>, <<ContactTabs[1]>> }

RunPrograms ==
    { <<ProgHeader>>, <<ProgHeader, <<ADate, <<"I","N","V","-","0","7","/","2","5">>, JaneDoe>> >> }

\* every value set, or all but one
Environments == {Required} \cup {Required \ {v} : v \in Required}

JobInit ==
    /\ env \in Environments
    /\ job = NoJob
    /\ master = <<LinkHeader>>
    /\ program \in RunPrograms
    /\ effort \in RunEfforts
    /\ contacts \in RunContacts
    /\ config = <<>>
    /\ pc = "idle"
    /\ pending = NoPending
    /\ run = NoRun
    /\ agg = NoAgg
    /\ links = NoLinks
    /\ ClassifyIdle
    /\ RetryIdle

\* how a call of run() ends
ended(status, aborted_at) ==
    [job EXCEPT !.stage = "idle", !.status = status, !.aborted_at = aborted_at,
                !.runs = @ + 1]

\* the module is loaded and run(selected_month) is called: SystemExit
\* without the credential
JobStart(selected_month) ==
    /\ job.stage = "idle"
    /\ job.runs < MaxRuns
    /\ job' = IF "GCP_SA_KEY" \in env
              THEN [job EXCEPT !.stage = "aggregate",
                               !.selected_month = selected_month,
                               !.rows = <<>>, !.pre = master, !.status = "none",
                               !.aborted_at = "none", !.faults = {}, !.done = {}]
              ELSE [job EXCEPT !.selected_month = selected_month,
                               !.rows = <<>>, !.pre = master,
                               !.status = "aborted", !.aborted_at = "load",
                               !.faults = {}, !.done = {}, !.runs = @ + 1]
    /\ UNCHANGED <<master, beyond_job>>

\* aggregate_from_effort and the rows built from its totals; no rows ends
\* the call with status empty
JobAggregate ==
    /\ job.stage = "aggregate"
    /\ needs("aggregate") \subseteq env
    /\ job' = IF build_rows(effort, job.selected_month) = <<>>
              THEN [ended("empty", "none") EXCEPT !.done = @ \cup {"aggregate"}]
              ELSE [job EXCEPT !.stage = "append",
                               !.rows = build_rows(effort, job.selected_month),
                               !.done = @ \cup {"aggregate"}]
    /\ UNCHANGED <<master, beyond_job>>

\* append_master_rows
JobAppend ==
    /\ job.stage = "append"
    /\ needs("append") \subseteq env
    /\ master' = append_values(master, job.rows)
    /\ job' = [job EXCEPT !.stage = "populate", !.wrote = TRUE,
                          !.done = @ \cup {"append"}]
    /\ UNCHANGED beyond_job

\* populate_tracker_links_and_emails
JobPopulate ==
    /\ job.stage = "populate"
    /\ needs("populate") \subseteq env
    /\ master' = populate_tracker_links_and_emails("run", master,
                    build_sme_links_map("run", contacts))
    /\ job' = [job EXCEPT !.stage = "assign", !.wrote = TRUE,
                          !.done = @ \cup {"populate"}]
    /\ UNCHANGED beyond_job

\* assign_invoice_numbers_exact_match(force_overwrite=False,
\* month_filter=selected_month), its writes included
JobAssign ==
    /\ job.stage = "assign"
    /\ needs("assign") \subseteq env
    /\ master' = Outcome(assign_invoice_numbers_exact_match(master, program,
                            FALSE, job.selected_month))
    /\ job' = [job EXCEPT !.stage = "mark",
                          !.wrote = @ \/ assign_invoice_numbers_exact_match(
                                master, program, FALSE, job.selected_month).writes,
                          !.done = @ \cup {"assign"}]
    /\ UNCHANGED beyond_job

\* mark_processed, and the value returned
JobMark ==
    /\ job.stage = "mark"
    /\ needs("mark") \subseteq env
    /\ job' = [ended("ok", "none") EXCEPT !.wrote = TRUE,
                                          !.done = @ \cup {"mark"}]
    /\ UNCHANGED <<master, beyond_job>>

\* a store call of the stage raises, as it must when its identifier is not
\* set: inside try/except run() goes on, elsewhere the error leaves run().
\* When partial, populate's write of column D had landed before.
JobFault(partial) ==
    /\ job.stage \in {"aggregate", "append", "populate", "assign", "mark"}
    /\ partial => (job.stage = "populate" /\ needs("populate") \subseteq env)
    /\ master' = IF partial
                 THEN update_values(master, 3,
                        tracker_out("run", build_sme_links_map("run", contacts), master))
                 ELSE master
    /\ job' = IF caught(job.stage)
              THEN [job EXCEPT !.stage = after(job.stage),
                               !.faults = @ \cup {job.stage},
                               !.wrote = @ \/ partial]
              ELSE ended("aborted", job.stage)
    /\ UNCHANGED beyond_job

JobNext ==
    \/ \E m \in Months : JobStart(m)
    \/ JobAggregate
    \/ JobAppend
    \/ JobPopulate
    \/ JobAssign
    \/ JobMark
    \/ \E partial \in BOOLEAN : JobFault(partial)

SpecRun == JobInit /\ [][JobNext]_vars


----------------------------------------------------------------------------
\* instructor, category and period of data row i of the ledger
LedgerKey(sheet, i) ==
    <<cell(sheet[i + 1], 1), cell(sheet[i + 1], 2), cell(sheet[i + 1], 0)>>

(* C11: whatever calls of run() were made, for the same period twice       *)
(* included, the ledger holds at most one row per instructor, category     *)
(* and period.                                                             *)
C11_OneRowPerKey ==
    \A i, j \in 1..(Len(master) - 1) :
        i # j => LedgerKey(master, i) # LedgerKey(master, j)

\* the rows the call appended stand where they were appended
RowsRemain ==
    /\ Len(master) = Len(job.pre) + Len(job.rows)
    /\ \A j \in 1..Len(job.rows) :
        LedgerKey(master, Len(job.pre) - 1 + j) =
            <<job.rows[j][2], job.rows[j][3], job.rows[j][1]>>

(* C17: a fault of population or of assignment does not end the call:      *)
(* assignment is still entered after a failed population, the rows         *)
(* appended stay in the ledger, and the call that ends returns status ok.  *)
C17_FaultsCaught ==
    /\ job.aborted_at \notin {"populate", "assign"}
    /\ job.faults # {} =>
        /\ RowsRemain
        /\ "populate" \in job.faults =>
                job.stage = "assign" \/ "assign" \in job.done \cup job.faults
        /\ (job.stage = "idle" /\ job.aborted_at = "none") => job.status = "ok"

C17_Witness ==
    /\ job.faults = {"populate", "assign"}
    /\ job.stage = "idle"
    /\ job.status = "ok"
    /\ Len(master) > Len(job.pre)

(* C18: with the credential or any of the four store identifiers not set,  *)
(* no append and no write is made to any store.                            *)
C18_AbortsBeforeMutation ==
    Required \ env # {} => (~ job.wrote /\ master = <<LinkHeader>>)


----------------------------------------------------------------------------
(* retry(max_attempts, backoff) around a store call                        *)

MaxAttempts == 4

\* what one invocation of the wrapped function does: it returns a value,
\* raises an Exception, or raises what is no Exception
Values == {"rows", "nothing"}
Exceptions == {"HttpError", "TimeoutError"}
Interrupts == {"KeyboardInterrupt"}

C20_mut_gives_up(attempt, max_attempts) == attempt > max_attempts

\* if attempt >= max_attempts: raise
gives_up(attempt, max_attempts) == attempt >= max_attempts

\* backoff * (2 ** (attempt - 1)), with backoff = 1
backoff_delay(attempt) == 2 ^ (attempt - 1)

RetryInit ==
    /\ call \in {[NoCall EXCEPT !.max_attempts = n, !.state = "calling"] :
                    n \in 1..MaxAttempts}
    /\ LedgerIdle
    /\ ClassifyIdle
    /\ AggIdle
    /\ LinksIdle
    /\ JobIdle

\* return f(*a, **kw)
Returns(v) ==
    /\ call.state = "calling"
    /\ call' = [call EXCEPT !.state = "returned", !.log = Append(@, v),
                            !.outcome = v]
    /\ UNCHANGED beyond_retry

\* except Exception: one more attempt is counted, then raise or sleep
Raises(e) ==
    /\ call.state = "calling"
    /\ call' = IF gives_up(call.attempt + 1, call.max_attempts)
               THEN [call EXCEPT !.attempt = @ + 1, !.log = Append(@, e),
                                 !.state = "raised", !.outcome = e]
               ELSE [call EXCEPT !.attempt = @ + 1, !.log = Append(@, e),
                                 !.state = "sleeping",
                                 !.slept = Append(@, backoff_delay(call.attempt + 1))]
    /\ UNCHANGED beyond_retry

\* what is no Exception passes through the except clause
Interrupted(e) ==
    /\ call.state = "calling"
    /\ call' = [call EXCEPT !.log = Append(@, e), !.state = "raised",
                            !.outcome = e]
    /\ UNCHANGED beyond_retry

\* time.sleep returns and the loop goes round
Wakes ==
    /\ call.state = "sleeping"
    /\ call' = [call EXCEPT !.state = "calling"]
    /\ UNCHANGED beyond_retry

RetryNext ==
    \/ \E v \in Values : Returns(v)
    \/ \E e \in Exceptions : Raises(e)
    \/ \E e \in Interrupts : Interrupted(e)
    \/ Wakes

\* an invocation of the wrapped function and a sleep both come to an end
SpecRetry == RetryInit /\ [][RetryNext]_vars /\ WF_vars(RetryNext)

----------------------------------------------------------------------------
Failed(i) == call.log[i] \notin Values

\* the wrapped function was invoked at most max_attempts times, never again
\* after it returned, and what the call gave is what its last invocation gave
RetryBounded ==
    /\ Len(call.log) <= call.max_attempts
    /\ \A i \in 1..(Len(call.log) - 1) : Failed(i)
    /\ call.state = "returned" =>
            (~ Failed(Len(call.log)) /\ call.outcome = call.log[Len(call.log)])
    /\ (Len(call.log) = call.max_attempts /\ Failed(Len(call.log))) =>
            (call.state = "raised" /\ call.outcome = call.log[Len(call.log)])

(* C20: a call wrapped by retry with max_attempts = n >= 1 ends; the       *)
(* wrapped function is invoked at most n times, its first success is       *)
(* returned with no further invocation, and when all n invocations fail    *)
(* the last failure is raised.                                             *)
C20_RetryTerminates ==
    /\ [] RetryBounded
    /\ <> (call.state \in {"returned", "raised"})

C20_Witness ==
    /\ call.max_attempts = 3
    /\ call.state = "raised"
    /\ call.log = <<"HttpError", "TimeoutError", "HttpError">>
    /\ call.outcome = "HttpError"

====
